---- MODULE Spec2Model ----
(***************************************************************************)
(* Model of the HLK-LD2451 radar driver.                                   *)
(*                                                                         *)
(* Two decoder variants are modelled side by side:                         *)
(*   "perTargetAlarm" : src/LD2451.go       (Target carries Alarm, the      *)
(*                      frame is finished with port.Flush())               *)
(*   "frameAlarm"     : src/unnamed/part_000 (one alarm byte is skipped      *)
(*                      after the count byte, the footer is read, and       *)
(*                      Open runs syn()/sendCommand before the loop)        *)
(*                                                                         *)
(* The byte source follows the contract of spec section 6: a read of n      *)
(* bytes yields exactly n bytes or an error.  A read fails once the port    *)
(* is closed (Close may come at any moment) or when the source has no more  *)
(* bytes (the read times out).  A Go run-time panic (index or slice bound   *)
(* out of range) ends the whole process.                                    *)
(***************************************************************************)
EXTENDS Integers, Sequences, FiniteSets, TLC

\* ---------------------------------------------------------------- bounds
MaxSegs == 2
MaxBuf == 2

\* ------------------------------------------------------- wire constants
frameheader == <<244, 243, 242, 241>>
framefooter == <<248, 247, 246, 245>>
ackMarker == 253
ackTerminator == <<4, 3, 2, 1>>
ackStatusOK == <<0, 0>>
enterConfig == <<253, 252, 251, 250, 4, 0, 255, 0, 1, 0, 4, 3, 2, 1>>
exitConfig == <<253, 252, 251, 250, 2, 0, 254, 0, 4, 3, 2, 1>>
angleOffset == 128
recordSize == 6
DirectionAway == 0
DirectionToward == 1

Variants == {"perTargetAlarm", "frameAlarm"}

\* ------------------------------------------------------------- helpers
RECURSIVE Flatten(_)
Flatten(ss) == IF ss = <<>> THEN <<>> ELSE Head(ss) \o Flatten(Tail(ss))

Drop(s, n) == SubSeq(s, n + 1, Len(s))

IsPrefix(s, t) == Len(s) <= Len(t) /\ s = SubSeq(t, 1, Len(s))

LE16(n) == <<n % 256, n \div 256>>

SeqsUpTo(S, n) == UNION {[1..k -> S] : k \in 0..n}

\* --------------------------------------------------- the bytes on the wire
\* A frame as the sensor sends it: header, little-endian length, payload,
\* footer (the footer is not counted by the length).
FrameBytes(payload) == frameheader \o LE16(Len(payload)) \o payload \o framefooter

\* Payload layout of a variant: the count byte, (frameAlarm only) one alarm
\* byte, then the 6-byte records, then whatever else the payload carries.
PayloadOf(v, count, recs, extra) ==
    <<count>> \o (IF v = "frameAlarm" THEN <<0>> ELSE <<>>) \o Flatten(recs) \o extra

Rec1 == <<1, 144, 10, 1, 20, 30>>
Rec2 == <<0, 0, 255, 0, 7, 244>>

Seg(kind, count, recs, bytes) == [kind |-> kind, count |-> count, recs |-> recs, bytes |-> bytes]

FrameSeg(v, count, recs, extra) ==
    Seg(IF count = Len(recs) THEN "frame" ELSE "short", count, recs,
        FrameBytes(PayloadOf(v, count, recs, extra)))

\* The scenario of spec section 8: length 7, count 1, one skipped byte and
\* five bytes 90 0A 01 14 1E.
ScenarioBytes == <<244, 243, 242, 241, 7, 0, 1, 0, 144, 10, 1, 20, 30, 248, 247, 246, 245>>

SegSet(v) ==
    { Seg("noise", 0, <<>>, <<0, 243>>),
      Seg("spurious", 0, <<>>, <<244, 243, 242, 0>>),
      Seg("stray", 0, <<>>, <<244>>),
      Seg("zero", 0, <<>>, FrameBytes(<<>>)),
      Seg("bare", 0, <<>>, FrameBytes(<<0>>)),
      Seg("scenario", 1, IF v = "frameAlarm" THEN <<>> ELSE <<SubSeq(ScenarioBytes, 8, 13)>>,
          ScenarioBytes),
      Seg("frame", 0, <<>>, FrameBytes(<<0, 0>>)),
      FrameSeg(v, 2, <<Rec2, Rec1>>, <<>>),
      FrameSeg(v, 2, <<Rec1>>, <<>>) }

\* Acknowledgement blocks as the sensor sends them (marker byte, then the
\* 17-byte and the 13-byte block read by sendCommand).
Ack1Good == <<253, 252, 251, 250, 8, 0, 255, 1, 0, 0, 1, 0, 64, 0, 4, 3, 2, 1>>
Ack2Good == <<253, 252, 251, 250, 4, 0, 254, 1, 0, 0, 4, 3, 2, 1>>

Flip(s, k) == [s EXCEPT ![k] = (s[k] + 1) % 256]

\* Positions (1-based, in the whole acknowledgement) of the marker, the two
\* status bytes and the four terminator bytes.
Ack1Checked == {1, 9, 10, 15, 16, 17, 18}
Ack2Checked == {1, 9, 10, 11, 12, 13, 14}

AckSeg(good, bytes) == Seg(IF good THEN "ack" ELSE "badack", 0, <<>>, bytes)

Ack1Set == {AckSeg(TRUE, Ack1Good)} \cup {AckSeg(FALSE, Flip(Ack1Good, k)) : k \in Ack1Checked}
           \cup {AckSeg(FALSE, Tail(Ack1Good) \o <<0>>)}
Ack2Set == {AckSeg(TRUE, Ack2Good)} \cup {AckSeg(FALSE, Flip(Ack2Good, k)) : k \in Ack2Checked}
           \cup {AckSeg(FALSE, Tail(Ack2Good) \o <<0>>)}

\* The input streams: any sequence of at most MaxSegs segments, and, for the
\* variant that has sendCommand, the two acknowledgements followed by a frame.
Streams(v) == SeqsUpTo(SegSet(v), MaxSegs)

\* The sensor may also answer only the first write, or none.
CmdStreams ==
    {<<a1, a2, FrameSeg("frameAlarm", 2, <<Rec2, Rec1>>, <<>>)>> : a1 \in Ack1Set, a2 \in Ack2Set}
    \cup {<<AckSeg(TRUE, Ack1Good)>>, <<>>}

ShortCmdStreams ==
    {<<a1, a2>> : a1 \in {AckSeg(TRUE, Ack1Good), AckSeg(FALSE, Flip(Ack1Good, 9))},
                  a2 \in {AckSeg(TRUE, Ack2Good), AckSeg(FALSE, Flip(Ack2Good, 11))}}
    \cup {<<AckSeg(TRUE, Ack1Good)>>}

SegBytes(ss) == [k \in 1..Len(ss) |-> ss[k].bytes]

\* Offset on the wire of the first byte of segment k.
SegStart(ss, k) == Len(Flatten(SubSeq(SegBytes(ss), 1, k - 1)))

\* ---------------------------------------------------------------- state
VARIABLES
    variant,      \* which source file is running
    config,       \* Config (TargetBufferSize)
    segs,         \* what the sensor sends, segment by segment (never changes)
    starts,       \* offset on the wire of the first byte of each segment
    wire,         \* the bytes of segs
    pos,          \* number of bytes of wire consumed from the port
    closed,       \* port.Close() was called
    pc,           \* position of the read() goroutine
    buf,          \* read(): the payload slice
    bufAt,        \* offset on the wire of buf[0]
    frameLength,  \* read(): length field of the frame
    numTargets,   \* read(): count byte of the frame
    i,            \* read(): loop index
    frameAt,      \* offset of the header of the frame being decoded
    targets,      \* the targets channel
    cpc,          \* position of the consumer in ReadTarget
    cmdpc,        \* position of sendCommand
    written,      \* frames handed to port.Write, in order
    sent,         \* history: targets sent on the channel, with record offset
    returned,     \* history: results returned by ReadTarget
    failSnap,     \* history: the first failed read of read()
    closeSnap,    \* history: where the loop stood when Close was called
    partial,      \* the port may return fewer bytes than asked for, without error
    shortAt       \* history: where the first such read happened ("none" before)

vars == <<variant, config, segs, starts, wire, pos, closed, pc, buf, bufAt, frameLength, numTargets, i,
          frameAt, targets, cpc, cmdpc, written, sent, returned, failSnap, closeSnap,
          partial, shortAt>>

cfgVars == <<variant, config, segs, starts, wire, partial>>
loopVars == <<pc, buf, bufAt, frameLength, numTargets, i, frameAt>>
cmdVars == <<cmdpc, written>>

NoFail == [failed |-> FALSE, pos |-> 0, nsent |-> 0, at |-> "none"]

NoClose == [nsent |-> 0, pending |-> 0]

\* Everything but the input: Open has built the LD2451 value and the port is
\* open; syn() and the loop have not run yet.
InitRest ==
    /\ config \in [TargetBufferSize : {0, 1, MaxBuf}]
    /\ starts = [k \in 1..Len(segs) |-> SegStart(segs, k)]
    /\ wire = Flatten(SegBytes(segs))
    /\ pos = 0
    /\ closed = FALSE
    /\ pc = "init"
    /\ buf = <<>>
    /\ bufAt = 0
    /\ frameLength = 0
    /\ numTargets = 0
    /\ i = 0
    /\ frameAt = -1
    /\ targets = <<>>
    /\ cpc = "idle"
    /\ written = <<>>
    /\ sent = <<>>
    /\ returned = <<>>
    /\ failSnap = NoFail
    /\ closeSnap = NoClose
    /\ shortAt = "none"

\* The port keeps the contract of spec section 6: n bytes or an error.
Init ==
    /\ partial = FALSE
    /\ variant \in Variants
    /\ \/ /\ segs \in Streams(variant)
          /\ cmdpc = "none"
       \/ /\ variant = "frameAlarm"
          /\ segs \in CmdStreams
          /\ cmdpc = "call"
    /\ InitRest

\* The port may also return after fewer bytes than asked for, with no error
\* (what a serial port does when the bytes have not all arrived yet).
InitShort ==
    /\ partial = TRUE
    /\ variant \in Variants
    /\ \/ /\ segs \in SeqsUpTo(SegSet(variant), MaxSegs - 1)
          /\ cmdpc = "none"
       \/ /\ variant = "frameAlarm"
          /\ segs \in ShortCmdStreams
          /\ cmdpc = "call"
    /\ InitRest

\* ------------------------------------------------------------ the port
\* port.Read(buf) with len(buf) = n succeeds with the next n bytes; it fails
\* once the port is closed or when the source has no more bytes to give.
CanRead(n) == ~closed /\ pos + n <= Len(wire)
PortBytes(n) == SubSeq(wire, pos + 1, pos + n)

Min(a, b) == IF a < b THEN a ELSE b

Zeros(n) == [k \in 1..n |-> 0]

\* A port that keeps delivering bytes after Close.
Reads_IgnoreClosed(n) ==
    (IF pos + n <= Len(wire) THEN {[got |-> n, bytes |-> PortBytes(n)]} ELSE {})
    \cup (IF partial
          THEN {[got |-> k, bytes |-> PortBytes(k) \o Zeros(n - k)] :
                  k \in 1..Min(n - 1, Len(wire) - pos)}
          ELSE {})

\* What buf := make([]byte, n); _, err = port.Read(buf) can leave behind with
\* err == nil: got is the byte count Read returned (which the source drops),
\* bytes is buf afterwards.  A short read fills the first got bytes and
\* leaves the rest of the fresh buffer zero.
Reads(n) ==
    IF closed THEN {}
    ELSE (IF pos + n <= Len(wire) THEN {[got |-> n, bytes |-> PortBytes(n)]} ELSE {})
         \cup (IF partial
               THEN {[got |-> k, bytes |-> PortBytes(k) \o Zeros(n - k)] :
                       k \in 1..Min(n - 1, Len(wire) - pos)}
               ELSE {})

NoteShort(r, n, where) == IF shortAt = "none" /\ r.got < n THEN where ELSE shortAt

Alive == pc # "panicked"
Opened == pc # "init"

\* ------------------------------------------------------- read(): helpers
\* buf[0] != frameheader[0]
IsHeaderStart(b) == b[1] = frameheader[1]

\* bytes.Equal(buf, frameheader[1:])
HeaderMatches(b) == b = Tail(frameheader)

\* frameLength := int(buf[1])<<8 | int(buf[0])
FrameLength(b) == b[2] * 256 + b[1]

\* Number of bytes resliced away after the count byte: buf[1:] in LD2451.go,
\* buf[2:] ("move to the next byte AND skip alarm state") in part_000.
SkipAfterCount(v) == IF v = "frameAlarm" THEN 2 ELSE 1

\* The fields of one target, from the slice b positioned on its record
\* (b[k+1] here is buf[k] in the source).
DecodeTarget(v, b) ==
    IF v = "perTargetAlarm"
    THEN [Alarm |-> (b[1] = 1), Angle |-> b[2] - angleOffset, Distance |-> b[3],
          Direction |-> b[4], Speed |-> b[5], SNR |-> b[6]]
    ELSE [Angle |-> b[2] - angleOffset, Distance |-> b[3],
          Direction |-> b[4], Speed |-> b[5], SNR |-> b[6]]

\* Highest index the loop body reads is buf[5].
CanDecode(b) == Len(b) >= recordSize

NextRecord_ShortStride(b) == Drop(b, recordSize - 1)

\* buf = buf[6:]
NextRecord(b) == Drop(b, recordSize)

HasRoom_OneTooMany(q, cap) == Len(q) <= cap

\* A send on the targets channel completes at once when the buffer has room.
HasRoom(q, cap) == Len(q) < cap

\* Where read() goes when the target loop is over: part_000 reads the
\* footer, LD2451.go calls port.Flush().
AfterTargets(v) == IF v = "frameAlarm" THEN "footer" ELSE "flush"

LoopPc(v, n, k) == IF k < n THEN "targets" ELSE AfterTargets(v)

\* -------------------------------------------------------------- Open
\* go ld2451.read(): the loop starts once syn() has returned.
Open ==
    /\ pc = "init"
    /\ cmdpc \in {"none", "returned"}
    /\ pc' = "scan"
    /\ UNCHANGED <<cfgVars, pos, closed, buf, bufAt, frameLength, numTargets, i, frameAt, targets,
                   cpc, cmdVars, sent, returned, failSnap, closeSnap, shortAt>>

\* port.Close()
Close ==
    /\ Alive /\ Opened
    /\ ~closed
    /\ closed' = TRUE
    /\ closeSnap' = [nsent |-> Len(sent),
                     pending |-> IF pc = "targets" THEN numTargets - i ELSE 0]
    /\ UNCHANGED <<cfgVars, pos, loopVars, targets, cpc, cmdVars, sent, returned, failSnap, shortAt>>

\* ------------------------------------------------------------ read()
ReadPcs == {"scan", "hdr3", "len", "foot0", "payload", "footer"}

\* len(buf) of the port.Read at each read step of the loop.
ReadSize(p) ==
    CASE p = "scan" -> 1
      [] p = "hdr3" -> 3
      [] p = "len" -> 2
      [] p \in {"foot0", "footer"} -> 4
      [] OTHER -> frameLength

\* A loop that treats a failed footer read as "no more data" and goes on.
ReadFail_ContinueAfterFooter ==
    /\ pc \in ReadPcs
    /\ ~CanRead(ReadSize(pc))
    /\ pc' = IF pc \in {"foot0", "footer"} THEN "scan" ELSE "sendErr"
    /\ failSnap' = [failed |-> TRUE, pos |-> pos, nsent |-> Len(sent), at |-> pc]
    /\ UNCHANGED <<cfgVars, pos, closed, buf, bufAt, frameLength, numTargets, i, frameAt, targets,
                   cpc, cmdVars, sent, returned, closeSnap, shortAt>>

\* A port.Read of the loop returns an error (the port was closed, or the
\* source has no more bytes and the read times out): errors <- err, which
\* blocks until a ReadTarget call receives it, then return.
ReadFail ==
    /\ pc \in ReadPcs
    /\ ~CanRead(ReadSize(pc))
    /\ pc' = "sendErr"
    /\ failSnap' = [failed |-> TRUE, pos |-> pos, nsent |-> Len(sent), at |-> pc]
    /\ UNCHANGED <<cfgVars, pos, closed, buf, bufAt, frameLength, numTargets, i, frameAt, targets,
                   cpc, cmdVars, sent, returned, closeSnap, shortAt>>

\* Read one byte and compare it with frameheader[0].
ScanByte ==
    /\ pc = "scan"
    /\ \E r \in Reads(1) :
          /\ pos' = pos + r.got
          /\ pc' = IF IsHeaderStart(r.bytes) THEN "hdr3" ELSE "scan"
          /\ UNCHANGED <<cfgVars, closed, buf, bufAt, frameLength, numTargets, i, frameAt, targets,
                         cpc, cmdVars, sent, returned, failSnap, closeSnap>>
          /\ shortAt' = NoteShort(r, 1, pc)

\* A header check that, on a mismatch, goes back to scan the three bytes
\* it has just compared.
ReadHeader_Rescan ==
    /\ pc = "hdr3"
    /\ \E r \in Reads(3) :
          /\ IF HeaderMatches(r.bytes)
             THEN pos' = pos + r.got /\ pc' = "len" /\ frameAt' = pos - 1
             ELSE pos' = pos /\ pc' = "scan" /\ frameAt' = frameAt
          /\ UNCHANGED <<cfgVars, closed, buf, bufAt, frameLength, numTargets, i, targets,
                         cpc, cmdVars, sent, returned, failSnap, closeSnap>>
          /\ shortAt' = NoteShort(r, 3, pc)

\* A loop that reports a header mismatch as an error instead of rescanning.
ReadHeader_ErrorOnMismatch ==
    /\ pc = "hdr3"
    /\ \E r \in Reads(3) :
          /\ pos' = pos + r.got
          /\ IF HeaderMatches(r.bytes)
             THEN pc' = "len" /\ frameAt' = pos - 1
             ELSE pc' = "sendErr" /\ frameAt' = frameAt
          /\ UNCHANGED <<cfgVars, closed, buf, bufAt, frameLength, numTargets, i, targets,
                         cpc, cmdVars, sent, returned, failSnap, closeSnap>>
          /\ shortAt' = NoteShort(r, 3, pc)

\* Read three bytes and compare them with the rest of the header.
ReadHeader ==
    /\ pc = "hdr3"
    /\ \E r \in Reads(3) :
          /\ pos' = pos + r.got
          /\ IF HeaderMatches(r.bytes)
             THEN pc' = "len" /\ frameAt' = pos - 1
             ELSE pc' = "scan" /\ frameAt' = frameAt
          /\ UNCHANGED <<cfgVars, closed, buf, bufAt, frameLength, numTargets, i, targets,
                         cpc, cmdVars, sent, returned, failSnap, closeSnap>>
          /\ shortAt' = NoteShort(r, 3, pc)

\* Read the two length bytes.
ReadLength ==
    /\ pc = "len"
    /\ \E r \in Reads(2) :
          /\ pos' = pos + r.got
          /\ numTargets' = 0
          /\ i' = 0
          /\ buf' = <<>>
          /\ bufAt' = pos + 2
          /\ frameLength' = FrameLength(r.bytes)
          /\ pc' = IF FrameLength(r.bytes) = 0 THEN "foot0" ELSE "payload"
          /\ UNCHANGED <<cfgVars, closed, frameAt, targets, cpc, cmdVars, sent, returned, failSnap, closeSnap>>
          /\ shortAt' = NoteShort(r, 2, pc)

\* A loop that continues on frameLength == 0 without reading the footer.
ReadEmptyFooter_NoRead ==
    /\ pc = "foot0"
    /\ CanRead(4)
    /\ pos' = pos
    /\ pc' = "scan"
    /\ UNCHANGED <<cfgVars, closed, buf, bufAt, frameLength, numTargets, i, frameAt, targets,
                   cpc, cmdVars, sent, returned, failSnap, closeSnap, shortAt>>

\* frameLength == 0: read the four footer bytes and continue.
ReadEmptyFooter ==
    /\ pc = "foot0"
    /\ \E r \in Reads(4) :
          /\ pos' = pos + r.got
          /\ pc' = "scan"
          /\ UNCHANGED <<cfgVars, closed, buf, bufAt, frameLength, numTargets, i, frameAt, targets,
                         cpc, cmdVars, sent, returned, failSnap, closeSnap>>
          /\ shortAt' = NoteShort(r, 4, pc)

\* Read frameLength bytes, take the count byte and reslice.  The reslice
\* buf[2:] of a one-byte payload is out of range and panics.
ReadPayload ==
    /\ pc = "payload"
    /\ \E r \in Reads(frameLength) :
          LET n == frameLength
              skip == SkipAfterCount(variant)
          IN /\ pos' = pos + r.got
             /\ numTargets' = r.bytes[1]
             /\ i' = 0
             /\ shortAt' = NoteShort(r, n, pc)
             /\ IF skip > n
                THEN /\ pc' = "panicked"
                     /\ UNCHANGED <<buf, bufAt>>
                ELSE /\ buf' = Drop(r.bytes, skip)
                     /\ bufAt' = pos + skip
                     /\ pc' = LoopPc(variant, r.bytes[1], 0)
    /\ UNCHANGED <<cfgVars, closed, frameLength, frameAt, targets, cpc, cmdVars, sent, returned, failSnap, closeSnap>>

\* The loop body indexes past the end of buf: run-time panic.
DecodePanic ==
    /\ pc = "targets"
    /\ ~CanDecode(buf)
    /\ pc' = "panicked"
    /\ UNCHANGED <<cfgVars, pos, closed, buf, bufAt, frameLength, numTargets, i, frameAt, targets,
                   cpc, cmdVars, sent, returned, failSnap, closeSnap, shortAt>>

\* Decode one target, send it on the targets channel, move to the next record.
\* With a full buffer the send waits; with an unbuffered channel it completes
\* only by handing the target to a ReadTarget call that is waiting.
SendTarget ==
    /\ pc = "targets"
    /\ CanDecode(buf)
    /\ LET t == DecodeTarget(variant, buf)
       IN /\ \/ /\ HasRoom(targets, config.TargetBufferSize)
                /\ targets' = Append(targets, t)
                /\ UNCHANGED <<cpc, returned>>
             \/ /\ config.TargetBufferSize = 0
                /\ cpc = "waiting"
                /\ cpc' = "idle"
                /\ returned' = Append(returned, [kind |-> "target", t |-> t])
                /\ UNCHANGED targets
          /\ sent' = Append(sent, [t |-> t, at |-> bufAt])
    /\ buf' = NextRecord(buf)
    /\ bufAt' = bufAt + recordSize
    /\ i' = i + 1
    /\ pc' = LoopPc(variant, numTargets, i + 1)
    /\ UNCHANGED <<cfgVars, pos, closed, frameLength, numTargets, frameAt, cmdVars, failSnap, closeSnap, shortAt>>

\* part_000: read the four footer bytes after the target block.
ReadFooter ==
    /\ pc = "footer"
    /\ \E r \in Reads(4) :
          /\ pos' = pos + r.got
          /\ pc' = "scan"
          /\ UNCHANGED <<cfgVars, closed, buf, bufAt, frameLength, numTargets, i, frameAt, targets,
                         cpc, cmdVars, sent, returned, failSnap, closeSnap>>
          /\ shortAt' = NoteShort(r, 4, pc)

\* LD2451.go: port.Flush() discards whatever the port has received and the
\* loop has not read yet; how much that is depends on timing.  On a closed
\* port the call fails (its result is ignored) and discards nothing.
Flush ==
    /\ pc = "flush"
    /\ \E k \in 0..(IF closed THEN 0 ELSE Len(wire) - pos) : pos' = pos + k
    /\ pc' = "scan"
    /\ UNCHANGED <<cfgVars, closed, buf, bufAt, frameLength, numTargets, i, frameAt, targets,
                   cpc, cmdVars, sent, returned, failSnap, closeSnap, shortAt>>

\* -------------------------------------------------------- ReadTarget()
CallReadTarget ==
    /\ Alive /\ Opened
    /\ cpc = "idle"
    /\ cpc' = "waiting"
    /\ UNCHANGED <<cfgVars, pos, closed, loopVars, targets, cmdVars, sent, returned, failSnap, closeSnap, shortAt>>

\* A receive that hands out the newest queued target instead of the oldest.
RecvTarget_Newest ==
    /\ Alive
    /\ cpc = "waiting"
    /\ targets # <<>>
    /\ returned' = Append(returned, [kind |-> "target", t |-> targets[Len(targets)]])
    /\ targets' = SubSeq(targets, 1, Len(targets) - 1)
    /\ cpc' = "idle"
    /\ UNCHANGED <<cfgVars, pos, closed, loopVars, cmdVars, sent, failSnap, closeSnap, shortAt>>

\* case target := <-ld2451.targets
RecvTarget ==
    /\ Alive
    /\ cpc = "waiting"
    /\ targets # <<>>
    /\ returned' = Append(returned, [kind |-> "target", t |-> Head(targets)])
    /\ targets' = Tail(targets)
    /\ cpc' = "idle"
    /\ UNCHANGED <<cfgVars, pos, closed, loopVars, cmdVars, sent, failSnap, closeSnap, shortAt>>

\* case err := <-ld2451.errors, meeting the loop's errors <- err
RecvError ==
    /\ cpc = "waiting"
    /\ pc = "sendErr"
    /\ returned' = Append(returned, [kind |-> "error"])
    /\ cpc' = "idle"
    /\ pc' = "done"
    /\ UNCHANGED <<cfgVars, pos, closed, buf, bufAt, frameLength, numTargets, i, frameAt, targets,
                   cmdVars, sent, failSnap, closeSnap, shortAt>>

\* ------------------------------------------------------- sendCommand()
\* status := buf[7:]; status = status[:len(status)-cut]
AckStatus(b, cut) == SubSeq(Drop(b, 7), 1, Len(b) - 7 - cut)

\* endFrame := buf[len(buf)-4:]
AckEndFrame(b) == Drop(b, Len(b) - 4)

\* buf[0] != 0xfd
IsAckMarker(b) == b[1] = ackMarker

AckAccepted_TerminatorOnly(b, cut) == AckEndFrame(b) = ackTerminator

\* !bytes.Equal(endFrame, ...) || !bytes.Equal(status, ...) is the failure
AckAccepted(b, cut) == AckEndFrame(b) = ackTerminator /\ AckStatus(b, cut) = ackStatusOK

\* len(buf) of the port.Read at each read step of sendCommand.
CmdReadSize(p) ==
    CASE p \in {"r1a", "r2a"} -> 1
      [] p = "r1b" -> 17
      [] OTHER -> 13

\* Open calls syn() before it starts the loop; syn runs the configuration
\* exchange of sendCommand.
syn ==
    /\ pc = "init"
    /\ cmdpc = "call"
    /\ cmdpc' = "w1"
    /\ UNCHANGED <<cfgVars, pos, closed, loopVars, targets, cpc, written, sent, returned, failSnap, closeSnap, shortAt>>

\* port.Write(enter-config); the result of Write is not looked at.
CmdWriteEnter ==
    /\ cmdpc = "w1"
    /\ \E ok \in BOOLEAN : written' = Append(written, [frame |-> enterConfig, ok |-> ok])
    /\ cmdpc' = "r1a"
    /\ UNCHANGED <<cfgVars, pos, closed, loopVars, targets, cpc, sent, returned, failSnap, closeSnap, shortAt>>

\* Read one byte, require the marker.
CmdReadMarker ==
    /\ cmdpc \in {"r1a", "r2a"}
    /\ \E r \in Reads(1) :
          /\ pos' = pos + r.got
          /\ cmdpc' = IF ~IsAckMarker(r.bytes) THEN "sendErr"
                      ELSE IF cmdpc = "r1a" THEN "r1b" ELSE "r2b"
          /\ UNCHANGED <<cfgVars, closed, loopVars, targets, cpc, written, sent, returned, failSnap, closeSnap>>
          /\ shortAt' = NoteShort(r, 1, cmdpc)

\* Read the 17-byte block, check terminator and status.
CmdReadAckEnter ==
    /\ cmdpc = "r1b"
    /\ \E r \in Reads(17) :
          /\ pos' = pos + r.got
          /\ cmdpc' = IF AckAccepted(r.bytes, 8) THEN "w2" ELSE "sendErr"
          /\ UNCHANGED <<cfgVars, closed, loopVars, targets, cpc, written, sent, returned, failSnap, closeSnap>>
          /\ shortAt' = NoteShort(r, 17, cmdpc)

\* port.Write(exit-config)
CmdWriteExit ==
    /\ cmdpc = "w2"
    /\ \E ok \in BOOLEAN : written' = Append(written, [frame |-> exitConfig, ok |-> ok])
    /\ cmdpc' = "r2a"
    /\ UNCHANGED <<cfgVars, pos, closed, loopVars, targets, cpc, sent, returned, failSnap, closeSnap, shortAt>>

\* Read the 13-byte block, check terminator and status, return.
CmdReadAckExit ==
    /\ cmdpc = "r2b"
    /\ \E r \in Reads(13) :
          /\ pos' = pos + r.got
          /\ cmdpc' = IF AckAccepted(r.bytes, 4) THEN "returned" ELSE "sendErr"
          /\ UNCHANGED <<cfgVars, closed, loopVars, targets, cpc, written, sent, returned, failSnap, closeSnap>>
          /\ shortAt' = NoteShort(r, 13, cmdpc)

\* A port.Read of sendCommand returns an error: errors <- err.  The errors
\* channel is unbuffered and Open has not returned yet, so no ReadTarget call
\* can receive: the send never completes.
CmdReadFail ==
    /\ cmdpc \in {"r1a", "r1b", "r2a", "r2b"}
    /\ ~CanRead(CmdReadSize(cmdpc))
    /\ cmdpc' = "sendErrIO"
    /\ UNCHANGED <<cfgVars, pos, closed, loopVars, targets, cpc, written, sent, returned, failSnap, closeSnap, shortAt>>

Next ==
    \/ Open
    \/ Close
    \/ ReadFail
    \/ ScanByte
    \/ ReadHeader
    \/ ReadLength
    \/ ReadEmptyFooter
    \/ ReadPayload
    \/ DecodePanic
    \/ SendTarget
    \/ ReadFooter
    \/ Flush
    \/ CallReadTarget
    \/ RecvTarget
    \/ RecvError
    \/ syn
    \/ CmdWriteEnter
    \/ CmdReadMarker
    \/ CmdReadAckEnter
    \/ CmdWriteExit
    \/ CmdReadAckExit
    \/ CmdReadFail

Spec == Init /\ [][Next]_vars

\* The same program on a port that may return short reads.
SpecShort == InitShort /\ [][Next]_vars

\* ---------------------------------------------------------------- types
TypeOK ==
    /\ pc \in {"init", "scan", "hdr3", "len", "foot0", "payload", "targets", "footer",
               "flush", "sendErr", "done", "panicked"}
    /\ cpc \in {"idle", "waiting"}
    /\ cmdpc \in {"none", "call", "w1", "r1a", "r1b", "w2", "r2a", "r2b", "sendErr",
                  "sendErrIO", "returned"}
    /\ pos \in 0..Len(wire)
    /\ closed \in BOOLEAN
    /\ partial \in BOOLEAN
    /\ shortAt \in ReadPcs \cup {"none", "r1a", "r1b", "r2a", "r2b"}
    /\ closeSnap.nsent \in 0..Len(sent)
    /\ closeSnap.pending \in 0..255

\* =================================================================
\* Properties
\* =================================================================
SegAt(k) == starts[k]

SegStop(k) == starts[k] + Len(segs[k].bytes)

Kinds(ss) == {ss[k].kind : k \in 1..Len(ss)}

\* What the claims say a record decodes to (r[k+1] is record byte k).
ExpectedTarget(v, r) ==
    IF v = "perTargetAlarm"
    THEN [Alarm |-> (r[1] = 1), Angle |-> r[2] - 128, Distance |-> r[3],
          Direction |-> r[4], Speed |-> r[5], SNR |-> r[6]]
    ELSE [Angle |-> r[2] - 128, Distance |-> r[3],
          Direction |-> r[4], Speed |-> r[5], SNR |-> r[6]]

\* The targets of the records of segment k, in payload order.
ExpectedOf(k) == [j \in 1..Len(segs[k].recs) |-> ExpectedTarget(variant, segs[k].recs[j])]

TargetsOf(es) == [j \in 1..Len(es) |-> es[j].t]

InSeg(k, e) == SegAt(k) <= e.at /\ e.at < SegStop(k)

\* The targets sent so far from the bytes of segment k.
SentIn(k) == TargetsOf(SelectSeq(sent, LAMBDA e : InSeg(k, e)))

\* read() is decoding the frame of segment k.
Decoding(k) == frameAt = SegAt(k)

\* read() has left the target loop of the frame it is decoding.
LoopOver == pc \in {"footer", "flush"}

\* C1: for every valid frame with count byte N and N complete 6-byte records
\* in the layout of the variant, the loop sends exactly N targets, in payload
\* order, with Angle = byte 1 - 0x80, Distance = byte 2, Direction = byte 3,
\* Speed = byte 4, SNR = byte 5 (and Alarm = (byte 0 = 1) in LD2451.go).
C1_RoundTrip ==
    \A k \in 1..Len(segs) :
        (segs[k].kind = "frame" /\ Decoding(k)) =>
            /\ IsPrefix(SentIn(k), ExpectedOf(k))
            /\ LoopOver => SentIn(k) = ExpectedOf(k)

C1_Witness ==
    \E k \in 1..Len(segs) :
        /\ segs[k].kind = "frame" /\ segs[k].count = 2
        /\ Decoding(k) /\ LoopOver
        /\ Len(SentIn(k)) = 2

ScenarioTarget == [Angle |-> 16, Distance |-> 10, Direction |-> DirectionToward, Speed |-> 20, SNR |-> 30]

\* C2: part_000 fed F4 F3 F2 F1 07 00 01 00 90 0A 01 14 1E F8 F7 F6 F5
\* delivers exactly one target, Target{Angle:16, Distance:10,
\* Direction:Toward, Speed:20, SNR:30}, and no decode failure happens.
C2_Scenario ==
    (variant = "frameAlarm" /\ wire = ScenarioBytes) =>
        /\ pc # "panicked"
        /\ \A j \in 1..Len(sent) : sent[j].t = ScenarioTarget
        /\ Len(sent) <= 1
        /\ (pc = "footer" \/ pos = Len(wire)) => Len(sent) = 1

\* C3: a frame whose count byte exceeds the complete records of its payload
\* is failed without any of its targets being sent, and the loop keeps
\* running (it is not ended by the frame).
C3_ShortFrame ==
    \A k \in 1..Len(segs) :
        (segs[k].kind = "short" /\ Decoding(k)) =>
            /\ SentIn(k) = <<>>
            /\ pc # "panicked"

ErrorsReturned == Len(SelectSeq(returned, LAMBDA r : r.kind = "error"))

ReturnedTargets == TargetsOf(SelectSeq(returned, LAMBDA r : r.kind = "target"))

\* C4: the first read of the loop that returns an error makes the loop send
\* exactly one error and stop for good: from the failed read on it reads
\* nothing more and sends no further target, the one error it sends is the
\* only one, and it sends an error for no other reason.
C4_OneTerminalError ==
    /\ failSnap.failed <=> pc \in {"sendErr", "done"}
    /\ failSnap.failed => (pos = failSnap.pos /\ Len(sent) = failSnap.nsent)
    /\ ErrorsReturned = (IF pc = "done" THEN 1 ELSE 0)

C4_Witness ==
    /\ pc = "done"
    /\ failSnap.at = "foot0"
    /\ failSnap.nsent > 0
    /\ pos < Len(wire)
    /\ ErrorsReturned = 1

\* C5: once a ReadTarget call has returned the terminal error, every later
\* call returns that error too and none blocks forever.
C5_ErrorIsSticky ==
    ErrorsReturned > 0 =>
        /\ returned[Len(returned)].kind = "error"
        /\ ~(cpc = "waiting" /\ targets = <<>> /\ pc = "done")

\* The send of the next decoded target cannot complete: the buffer is full
\* and no ReadTarget call is waiting.
SendBlocked ==
    /\ pc = "targets" /\ CanDecode(buf)
    /\ Len(targets) >= config.TargetBufferSize
    /\ cpc # "waiting"

\* C6: the targets queue never holds more than TargetBufferSize targets, no
\* sent target is dropped or reordered (what was sent is what was returned
\* followed by what is queued), and while the buffer is full and no
\* ReadTarget call is in progress the loop makes no progress and reads
\* nothing.
C6_Backpressure ==
    /\ [](Len(targets) <= config.TargetBufferSize)
    /\ [](TargetsOf(sent) = ReturnedTargets \o targets)
    /\ [][SendBlocked => (sent' = sent /\ pos' = pos /\ pc' = pc /\ targets' = targets)]_vars

C6_Witness ==
    /\ config.TargetBufferSize = 1
    /\ Len(targets) = 1
    /\ SendBlocked
    /\ Len(sent) = 1
    /\ returned = <<>>

\* The records the sensor put on the wire, each with the offset of its first
\* byte and the target it encodes.
RecordOffset(k, j) ==
    SegAt(k) + Len(frameheader) + 2 + SkipAfterCount(variant) + recordSize * (j - 1)

WireRecords ==
    UNION {{[t |-> ExpectedOf(k)[j], at |-> RecordOffset(k, j)] : j \in 1..Len(segs[k].recs)} :
        k \in 1..Len(segs)}

\* C7: with one consumer, what ReadTarget has returned is a prefix of the
\* targets in wire order: the results come in the order the loop sent them,
\* and the loop sends records of the wire in increasing wire offset, each at
\* most once.
C7_WireOrder ==
    /\ IsPrefix(ReturnedTargets, TargetsOf(sent))
    /\ \A a, b \in 1..Len(sent) : a < b => sent[a].at < sent[b].at
    /\ \A a \in 1..Len(sent) : sent[a] \in WireRecords

C7_Witness ==
    /\ Len(ReturnedTargets) >= 3
    /\ ReturnedTargets[1] # ReturnedTargets[2]

IsCmdStream == Len(segs) >= 2 /\ segs[1].kind \in {"ack", "badack"}

ExitWritten == \E j \in 1..Len(written) : written[j].frame = exitConfig

\* C8: sendCommand succeeds when both acknowledgements carry the marker FD,
\* status 00 00 and terminator 04 03 02 01; it reports a failure when the
\* marker, a status byte or a terminator byte of either is wrong; and when the
\* first acknowledgement is the wrong one, the exit-config frame is never
\* written.  (Reporting is reaching the send on the errors channel.)
C8_AckValidation ==
    IsCmdStream =>
        /\ cmdpc = "returned" => (segs[1].kind = "ack" /\ segs[2].kind = "ack")
        /\ cmdpc = "sendErr" => (segs[1].kind = "badack" \/ segs[2].kind = "badack")
        /\ segs[1].kind = "ack" => (cmdpc = "sendErr" => pos > Len(segs[1].bytes))
        /\ segs[1].kind = "badack" =>
              (~ExitWritten /\ cmdpc \notin {"w2", "r2a", "r2b", "returned"})
        /\ (segs[1].kind = "badack" /\ pos >= Len(segs[1].bytes)) => cmdpc = "sendErr"
        /\ segs[1].bytes[1] # ackMarker => cmdpc # "r1b"
        /\ segs[2].bytes[1] # ackMarker => cmdpc # "r2b"
        /\ (segs[2].kind = "badack" /\ pos >= SegStop(2) /\ pc = "init") =>
              cmdpc = "sendErr"
        /\ (Kinds(SubSeq(segs, 1, 2)) = {"ack"} /\ pos >= SegStop(2)) =>
              cmdpc = "returned"

C8_Witness ==
    /\ IsCmdStream
    /\ segs[1].kind = "ack" /\ segs[2].kind = "badack"
    /\ cmdpc = "sendErr"
    /\ ExitWritten
    /\ pos = SegStop(2)

NoiseKinds == {"noise", "spurious"}

\* Segment k is a valid frame and everything before it is noise.
FrameAfterNoise(k) ==
    /\ k > 1
    /\ segs[k].kind = "frame"
    /\ Kinds(SubSeq(segs, 1, k - 1)) \subseteq NoiseKinds

\* C9: bytes other than 0xF4, and 3-byte blocks after a spurious 0xF4 that
\* are not F3 F2 F1, are consumed without any target or any error being
\* sent, and the valid frame that starts after them is found at its header
\* and decoded.
C9_NoiseSkipped ==
    /\ pc \in {"sendErr", "done"} => failSnap.failed
    /\ \A k \in 1..Len(segs) :
          FrameAfterNoise(k) =>
              /\ pos <= SegAt(k) => (sent = <<>> /\ frameAt = -1)
              /\ pos = SegAt(k) => pc \in {"init", "scan", "sendErr", "done"}
              /\ (pos >= SegAt(k) + 4 /\ pos <= SegStop(k) - 4) => Decoding(k)
              /\ (Decoding(k) /\ LoopOver) => SentIn(k) = ExpectedOf(k)

C9_Witness ==
    \E k \in 1..Len(segs) :
        /\ FrameAfterNoise(k)
        /\ segs[k - 1].kind = "spurious"
        /\ Decoding(k) /\ LoopOver
        /\ Len(SentIn(k)) = 2

\* Segment k is a zero-length frame that the loop meets in step (the loop
\* is at the header scan when it reaches the first byte of the frame).
ZeroFrameInStep(k) ==
    /\ segs[k].kind = "zero"
    /\ Kinds(SubSeq(segs, 1, k - 1)) \subseteq (NoiseKinds \cup {"zero"})

\* C10: a frame with length field 0 causes no target and no error to be
\* sent, the loop consumes exactly the 4 bytes after the length field, and
\* the next byte it examines as a header byte is the first one after the
\* footer, so that a valid frame that follows at once is decoded.
C10_ZeroLength ==
    \A k \in 1..Len(segs) :
        ZeroFrameInStep(k) =>
            /\ SentIn(k) = <<>>
            /\ pc = "foot0" => (Decoding(k) = (pos = SegAt(k) + 6))
            /\ (pos > SegAt(k) /\ pos < SegStop(k)) =>
                  pc \in {"hdr3", "len", "foot0", "sendErr", "done"}
            /\ pos = SegStop(k) => pc \in {"scan", "sendErr", "done"}
            /\ (k < Len(segs) /\ segs[k + 1].kind = "frame") =>
                  /\ (pos >= SegAt(k + 1) + 4 /\ pos <= SegStop(k + 1) - 4)
                        => Decoding(k + 1)
                  /\ (Decoding(k + 1) /\ LoopOver) => SentIn(k + 1) = ExpectedOf(k + 1)

C10_Witness ==
    /\ Len(segs) = 2
    /\ ZeroFrameInStep(1)
    /\ segs[2].kind = "frame"
    /\ Decoding(2) /\ LoopOver
    /\ Len(SentIn(2)) = 2
    /\ failSnap.failed = FALSE

WriteFailed == \E j \in 1..Len(written) : ~written[j].ok

\* C11: in sendCommand a failed write (enter-config or exit-config), like a
\* failed read, surfaces one error and aborts: after a failed write the call
\* is at its error report, no acknowledgement is read and no further frame
\* is written.
C11_WriteFailureAborts ==
    WriteFailed =>
        /\ cmdpc \in {"sendErr", "sendErrIO"}
        /\ ~written[Len(written)].ok
        /\ pc = "init"

\* C12: every read step either gets exactly the bytes it asked for or is
\* treated as a hard failure: once the port has returned fewer bytes than
\* requested without an error, the reader (the loop or sendCommand) is at
\* its error report and interprets nothing.
C12_ExactReads ==
    shortAt # "none" =>
        /\ shortAt \in ReadPcs => pc \in {"sendErr", "done"}
        /\ shortAt \notin ReadPcs => cmdpc \in {"sendErr", "sendErrIO"}

\* C13 as stated: once Close has been called the loop sends no further
\* target, and ReadTarget returns no target sent after the Close.
C13_InertAfterClose ==
    closed =>
        /\ Len(sent) = closeSnap.nsent
        /\ Len(ReturnedTargets) <= closeSnap.nsent

\* C13, amended: Close only makes the next port.Read fail.  After Close the
\* loop sends at most the targets still pending in the payload it had already
\* read (numTargets - i of them when it stood in the target loop, none
\* otherwise), ReadTarget returns no target beyond those, and once the loop
\* has met the failed read nothing more is sent.
C13_CloseStopsAtNextRead ==
    closed =>
        /\ Len(sent) <= closeSnap.nsent + closeSnap.pending
        /\ Len(ReturnedTargets) <= closeSnap.nsent + closeSnap.pending
        /\ pc \in ReadPcs \cup {"flush", "sendErr", "done"} =>
              Len(sent) = closeSnap.nsent + closeSnap.pending
        /\ failSnap.failed => failSnap.nsent = Len(sent)

C13_Witness ==
    /\ closed
    /\ closeSnap.pending = 2
    /\ Len(sent) = closeSnap.nsent + 2
    /\ Len(ReturnedTargets) = Len(sent)
    /\ pc = "done"

\* The steps of the read() goroutine.  The send on the unbuffered errors
\* channel is a step only together with the receive in ReadTarget.
LoopStep ==
    \/ ReadFail
    \/ ScanByte
    \/ ReadHeader
    \/ ReadLength
    \/ ReadEmptyFooter
    \/ ReadPayload
    \/ DecodePanic
    \/ SendTarget
    \/ ReadFooter
    \/ Flush
    \/ RecvError

\* C14: after Close the loop goes on to surface the terminal error and
\* return whatever the consumer does: as long as it has not returned it has
\* a step to take, so that weak fairness of the loop alone takes it to its
\* return.
C14_LoopExitsAfterClose ==
    (closed /\ pc \notin {"done", "panicked"}) => ENABLED LoopStep

\* Segment k is a lone 0xF4 that the loop meets at the header scan, and the
\* header of a frame with records follows it at once (F4 F4 F3 F2 F1 ...).
StrayBeforeFrame(k) ==
    /\ segs[k].kind = "stray"
    /\ Kinds(SubSeq(segs, 1, k - 1)) \subseteq (NoiseKinds \cup {"zero"})
    /\ k < Len(segs)
    /\ segs[k + 1].recs # <<>>

\* C15: after a byte 0xF4 the loop reads exactly 3 more bytes; when they are
\* not F3 F2 F1 it drops the 3 of them unexamined and scans on with the next
\* unread byte.  A header that begins inside the 3 dropped bytes is therefore
\* never matched: the frame is not decoded and none of its targets is sent.
C15_ResyncWindow ==
    \A k \in 1..Len(segs) :
        StrayBeforeFrame(k) =>
            /\ pos = SegAt(k) + 1 => pc \in {"hdr3", "sendErr", "done"}
            /\ pos \notin {SegAt(k) + 2, SegAt(k) + 3}
            /\ pos = SegAt(k) + 4 => pc \in {"scan", "sendErr", "done"}
            /\ pos <= SegStop(k + 1) => frameAt \notin {SegAt(k), SegAt(k + 1)}
            /\ ~Decoding(k + 1)
            /\ SentIn(k + 1) = <<>>

C15_Witness ==
    /\ Len(segs) = 2
    /\ StrayBeforeFrame(1)
    /\ Len(segs[2].recs) = 2
    /\ pos = SegStop(2)
    /\ pc = "scan"
    /\ sent = <<>>

\* Segments k and k + 1 are valid frames with records, sent back to back,
\* and the loop meets the first of them at the header scan.
BackToBack(k) ==
    /\ segs[k].kind = "frame" /\ segs[k].recs # <<>>
    /\ Kinds(SubSeq(segs, 1, k - 1)) \subseteq (NoiseKinds \cup {"zero"})
    /\ k < Len(segs)
    /\ segs[k + 1].kind = "frame" /\ segs[k + 1].recs # <<>>

\* C16: after the target block of a frame with records the loop consumes
\* nothing beyond the 4 footer bytes of that frame before it scans for the
\* next header (part_000 by a 4-byte read, LD2451.go by port.Flush()), so
\* that of two valid frames sent back to back the second is found at its
\* header and all its targets are sent.
C16_FooterOnly ==
    \A k \in 1..Len(segs) :
        BackToBack(k) =>
            /\ (Decoding(k) /\ pc = "scan") => pos <= SegStop(k)
            /\ (pos >= SegAt(k + 1) + 4 /\ pos <= SegStop(k + 1) - 4) => Decoding(k + 1)
            /\ (Decoding(k + 1) /\ LoopOver) => SentIn(k + 1) = ExpectedOf(k + 1)

\* C17: the terminal error never overtakes decoded targets: when ReadTarget
\* returns the error the targets queue is empty and every target the loop
\* has sent has been returned, and no call returns a target after an
\* earlier call has returned the error.
C17_ErrorLast ==
    /\ pc = "done" =>
          /\ targets = <<>>
          /\ ReturnedTargets = TargetsOf(sent)
    /\ \A a, b \in 1..Len(returned) :
          (a < b /\ returned[a].kind = "error") => returned[b].kind # "target"

\* sendCommand stands at its errors <- err.
CmdAtErrorSend == cmdpc \in {"sendErr", "sendErrIO"}

\* C18: sendCommand returns to its caller on every path, also with no
\* ReadTarget call there to receive from the unbuffered errors channel:
\* whenever it stands at errors <- err the program has a step to take that
\* completes the send (a receiver is waiting) or the call has a further step.
C18_CommandReturns ==
    CmdAtErrorSend => (cpc = "waiting" \/ ENABLED Next)

\* Segment k is a frame with a non-zero length field and count byte 0 (a
\* payload of the count byte alone, or of the count byte and one more byte)
\* that the loop meets at the header scan.
CountZeroInStep(k) ==
    /\ segs[k].kind \in {"bare", "frame"}
    /\ segs[k].count = 0
    /\ Kinds(SubSeq(segs, 1, k - 1)) \subseteq (NoiseKinds \cup {"zero"})

\* C19: a frame with a non-zero length field and count byte 0 makes the
\* loop send no target and fail in no way, also when the payload is the
\* count byte alone, in both variants; the loop then goes on with the bytes
\* after the payload.
C19_CountZero ==
    \A k \in 1..Len(segs) :
        CountZeroInStep(k) =>
            /\ SentIn(k) = <<>>
            /\ Decoding(k) => pc \notin {"panicked", "targets"}
            /\ (Decoding(k) /\ LoopOver) => pos = SegStop(k) - 4
====
